---------------------------- MODULE Spec2Model ----------------------------
(***************************************************************************)
(* A model of the class-file inspector in src/class.go and its /class      *)
(* request handler (src/unnamed/part_000): parseClass and its Sections,    *)
(* the byteParser, ParseClass, parseCode, parseSigniture and the           *)
(* constant-pool accessors of Class.                                       *)
(*                                                                         *)
(* A byte is a number in 0..255 and a buffer is a sequence of bytes.       *)
(* Offsets are 0-based as in the source: the byte at offset k of buffer    *)
(* bs is bs[k + 1].  A value of 4 or 8 bytes is kept as the sequence of    *)
(* its big-endian bytes (binary.BigEndian is a bijection between the two), *)
(* a value of 1 or 2 bytes as the number it decodes to.  A Section label   *)
(* built by fmt.Sprintf is kept as the format string with the argument     *)
(* values.                                                                 *)
(***************************************************************************)
EXTENDS Integers, Sequences, FiniteSets, TLC

(***************************************************************************)
(* Bounds of the explored inputs.                                          *)
(***************************************************************************)
MaxEntries == 2
MaxUtf8Len == 1
MaxInterfaces == 1
MaxRequests == 2
MaxPoolIndex == 7
MaxCodeLength == 2

\* F(e) with e evaluated once, before F uses it: the value a loop carries
\* from one iteration to the next.
Bind(e, F(_)) == CHOOSE y \in { F(x) : x \in {e} } : TRUE

(***************************************************************************)
(* byteParser: src/class.go 91-136.                                        *)
(***************************************************************************)

\* bytes.NewReader(byteSlice[start:]): the slice expression panics when
\* start > len(byteSlice).
SliceInRange(byteSlice, start) == start <= Len(byteSlice)

\* newByteParser: the reader position (absolute offset) and a nil err.
newByteParser(byteSlice, start) == [pos |-> start, err |-> FALSE]

ZeroBytes(n) == [k \in 1..n |-> 0]

BytesAt(bs, pos, n) == [k \in 1..n |-> bs[pos + k]]

\* binary.Read as if a read that comes up short consumed nothing.
binaryReadLeavesRest(bs, pos, n) ==
    IF pos + n <= Len(bs)
    THEN [data |-> [k \in 1..n |-> bs[pos + k]], pos |-> pos + n, failed |-> FALSE]
    ELSE [data |-> [k \in 1..n |-> 0], pos |-> pos, failed |-> TRUE]

\* binary.Read of an n-byte integer: io.ReadFull either fills the n bytes, or
\* consumes what is left of the reader and returns io.EOF/io.ErrUnexpectedEOF
\* with the destination untouched (zero).
binaryRead(bs, pos, n) ==
    IF pos + n <= Len(bs)
    THEN [data |-> BytesAt(bs, pos, n), pos |-> pos + n, failed |-> FALSE]
    ELSE [data |-> ZeroBytes(n), pos |-> Len(bs), failed |-> TRUE]

\* `r.err = binary.Read(...)` inside a method with a value receiver
\* (func (r byteParser) uN()): the assignment is to the callee's copy of the
\* struct, so the err the caller holds is what it was before the call.
errAfterRead(callerErr, failed) == callerErr

\* One read of width n on the caller's parser p: the bytes decoded, the
\* caller's parser after the call, and whether the read came up short.
readN(bs, p, n) ==
    IF p.err
    THEN [data |-> ZeroBytes(n), p |-> p, short |-> FALSE]
    ELSE LET r == binaryRead(bs, p.pos, n)
         IN  [data |-> r.data,
              p |-> [pos |-> r.pos, err |-> errAfterRead(p.err, r.failed)],
              short |-> r.failed]

\* The caller's parser after j reads of width w in a row: all j succeed, or
\* one of them drains the reader and the ones after it find nothing left.
parserAfter(bs, p, w, j) ==
    IF p.err \/ j = 0 THEN p
    ELSE IF p.pos + j * w <= Len(bs)
    THEN [pos |-> p.pos + j * w, err |-> p.err]
    ELSE [pos |-> Len(bs), err |-> errAfterRead(p.err, TRUE)]

u1(bs, p) == LET r == readN(bs, p, 1) IN [val |-> r.data[1], p |-> r.p]

u2(bs, p) ==
    LET r == readN(bs, p, 2) IN [val |-> r.data[1] * 256 + r.data[2], p |-> r.p]

u4(bs, p) == LET r == readN(bs, p, 4) IN [val |-> r.data, p |-> r.p]

u8(bs, p) == LET r == readN(bs, p, 8) IN [val |-> r.data, p |-> r.p]

(***************************************************************************)
(* Sections: src/unnamed/part_000 13-19.                                   *)
(***************************************************************************)

\* fmt.Sprintf(format, args...)
Sprintf(format, args) == [fmt |-> format, args |-> args]

Section(id, start, end, name, children) ==
    [Id |-> id, StartIndex |-> start, EndIndex |-> end, Name |-> name,
     Children |-> children]

\* The nil *Section a parsing function returns when it emits nothing.
NilSection == [Id |-> -1, StartIndex |-> -1, EndIndex |-> -1,
               Name |-> Sprintf("", <<>>), Children |-> <<>>]

\* What a parsing function hands back: (next, section), the id counter after
\* its nextId calls, and whether it panicked instead of returning.
Parsed(next, section, gid) ==
    [next |-> next, section |-> section, gid |-> gid, panic |-> FALSE]

Panicked(index, gid) ==
    [next |-> index, section |-> NilSection, gid |-> gid, panic |-> TRUE]

MagicNumber == <<202, 254, 186, 190>>

\* src/class.go 693-708
parseMagicNumber(bytes, index, gid) ==
    IF Len(bytes) >= 4
    THEN IF ~SliceInRange(bytes, index) THEN Panicked(index, gid)
         ELSE LET magic == u4(bytes, newByteParser(bytes, index)).val
              IN  IF magic = MagicNumber
                  THEN Parsed(index + 4,
                              Section(gid, index, index + 4,
                                      Sprintf("magic number", <<>>), <<>>),
                              gid + 1)
                  ELSE Parsed(index, NilSection, gid)
    ELSE Parsed(index, NilSection, gid)

\* src/class.go 710-740
parseVersion(bytes, index, gid) ==
    IF Len(bytes) >= 4
    THEN IF ~SliceInRange(bytes, index) THEN Panicked(index, gid)
         ELSE LET r1 == u2(bytes, newByteParser(bytes, index))
                  r2 == u2(bytes, r1.p)
                  minorVersion == r1.val
                  majorVersion == r2.val
              IN  IF ~r2.p.err
                  THEN Parsed(index + 4,
                         Section(gid + 2, index, index + 4,
                           Sprintf("version %d.%d", <<majorVersion, minorVersion>>),
                           << Section(gid, index, index + 2,
                                Sprintf("minor version: %d", <<minorVersion>>), <<>>),
                              Section(gid + 1, index + 2, index + 4,
                                Sprintf("major version: %d", <<majorVersion>>), <<>>) >>),
                         gid + 3)
                  ELSE Parsed(index, NilSection, gid)
    ELSE Parsed(index, NilSection, gid)


(***************************************************************************)
(* parseConstantPool: src/class.go 882-1152.                               *)
(***************************************************************************)

KnownTags == {1, 3, 4, 5, 6, 7, 8, 9, 10, 11, 12, 15, 16, 18}

\* item.Name of each case of the switch.
itemName(tag) ==
    CASE tag = 1  -> "[%d] UTF-8 string"
      [] tag = 3  -> "[%d] int"
      [] tag = 4  -> "[%d] float"
      [] tag = 5  -> "[%d] long"
      [] tag = 6  -> "[%d] double"
      [] tag = 7  -> "[%d] class info"
      [] tag = 8  -> "[%d] string constant"
      [] tag = 9  -> "[%d] field ref"
      [] tag = 10 -> "[%d] method ref"
      [] tag = 11 -> "[%d] interface method ref"
      [] tag = 12 -> "[%d] name and type"
      [] tag = 15 -> "[%d] method handle"
      [] tag = 16 -> "[%d] method type"
      [] tag = 18 -> "[%d] invoke dynamic"

\* The reads each fixed-shape case makes after the tag, in order: the width
\* read and the label of the Section emitted for it.
valueFields(tag) ==
    CASE tag = 3  -> << [w |-> 4, fmt |-> "%d"] >>
      [] tag = 4  -> << [w |-> 4, fmt |-> "%v"] >>
      [] tag = 5  -> << [w |-> 8, fmt |-> "%v"] >>
      [] tag = 6  -> << [w |-> 8, fmt |-> "%v"] >>
      [] tag = 7  -> << [w |-> 2, fmt |-> "name index: %v"] >>
      [] tag = 8  -> << [w |-> 2, fmt |-> "UTF-8 constant index: %v"] >>
      [] tag \in {9, 10, 11} ->
            << [w |-> 2, fmt |-> "class info index: %v"],
               [w |-> 2, fmt |-> "name and type index: %v"] >>
      [] tag = 12 -> << [w |-> 2, fmt |-> "name index: %v"],
                        [w |-> 2, fmt |-> "descriptor index: %v"] >>
      [] tag = 15 -> << [w |-> 1, fmt |-> "reference kind: %v"],
                        [w |-> 2, fmt |-> "reference index: %v"] >>
      [] tag = 16 -> << [w |-> 2, fmt |-> "descriptor index: %v"] >>
      [] tag = 18 -> << [w |-> 2, fmt |-> "bootstrap method attribute index: %v"],
                        [w |-> 2, fmt |-> "name and type index: %v"] >>

\* wideSlots without the extra `i++`.
wideSlotsNone(tag) == 0

\* The extra `i++` of the cases 5 and 6.
wideSlots(tag) == IF tag \in {5, 6} THEN 1 ELSE 0

\* A read of width w with the value as a label argument list.
readArg(bs, p, w) ==
    IF w = 1 THEN LET r == u1(bs, p) IN [args |-> <<r.val>>, p |-> r.p]
    ELSE IF w = 2 THEN LET r == u2(bs, p) IN [args |-> <<r.val>>, p |-> r.p]
    ELSE IF w = 4 THEN LET r == u4(bs, p) IN [args |-> r.val, p |-> r.p]
    ELSE LET r == u8(bs, p) IN [args |-> r.val, p |-> r.p]

\* valueSection with EndIndex one byte too far.
valueSectionTooLong(id, next, f, args) ==
    Section(id, next, next + f.w + 1, Sprintf(f.fmt, args), <<>>)

\* One value child: StartIndex next, EndIndex next + w.
valueSection(id, next, f, args) ==
    Section(id, next, next + f.w, Sprintf(f.fmt, args), <<>>)

\* The value children of a fixed-shape entry: read, emit, next += width.
RECURSIVE valueSections(_, _, _, _, _)
valueSections(bs, p, next, gid, fields) ==
    IF fields = <<>>
    THEN [p |-> p, next |-> next, gid |-> gid, children |-> <<>>]
    ELSE Bind(readArg(bs, p, Head(fields).w), LAMBDA r :
         Bind(valueSections(bs, r.p, next + Head(fields).w, gid + 1, Tail(fields)),
              LAMBDA rest :
                [rest EXCEPT !.children =
                    <<valueSection(gid, next, Head(fields), r.args)>> \o @]))

\* for i := uint16(0); i < length; i++ { strBytes[i] = parser.u1() }
readBytes(bs, p, n) ==
    [bytes |-> [k \in 1..n |-> u1(bs, parserAfter(bs, p, 1, k - 1)).val],
     p |-> parserAfter(bs, p, 1, n)]

\* case 1: the length and string children.
utf8Sections(bs, p, next, gid) ==
    LET rl == u2(bs, p)
        length == rl.val
        rs == readBytes(bs, rl.p, length)
    IN  [p |-> rs.p, next |-> next + 2 + length, gid |-> gid + 2,
         children |->
            << Section(gid, next, next + 2,
                       Sprintf("length: %d", <<length>>), <<>>),
               Section(gid + 1, next + 2, next + 2 + length,
                       Sprintf("string: \"%s\"", rs.bytes), <<>>) >>]

\* int(constantPoolCount-1), the subtraction being on uint16.
loopLimit(constantPoolCount) == (constantPoolCount + 65535) % 65536

RECURSIVE poolLoop(_, _, _)

\* afterUnknownTag with `continue` for `break loop`: the entry is skipped and
\* the loop goes on while bytes remain.
afterUnknownTagContinue(bs, limit, st) ==
    IF st.p.pos >= Len(bs) THEN st
    ELSE poolLoop(bs, limit, [st EXCEPT !.i = @ + 1])

\* default: `break loop`.  st is the loop state after the tag was read; the
\* offset and slot of the tag are noted in it.
afterUnknownTag(bs, limit, st) == st

\* The body of the switch for a known tag: the entry's children after the
\* tag Section, with the parser, offset and id counter after them.
entryBody(bs, p, next, gid, tag) ==
    IF tag = 1 THEN utf8Sections(bs, p, next, gid)
    ELSE valueSections(bs, p, next, gid, valueFields(tag))

\* The loop of lines 895-1142.  st.i is the loop variable, st.next the running
\* offset, st.p the parser, st.gid the id counter, st.children the Sections
\* appended so far; rt is the read of the tag.
poolLoop(bs, limit, st) ==
    IF st.i >= limit THEN st
    ELSE Bind(u1(bs, st.p), LAMBDA rt :
      IF rt.val \notin KnownTags
      THEN Bind([st EXCEPT !.p = rt.p, !.next = st.next + 1,
                           !.gid = st.gid + 2,
                           !.badOff = IF @ = -1 THEN st.next ELSE @,
                           !.badSlot = IF @ = -1 THEN st.i + 1 ELSE @,
                           !.badEntry = IF @ = -1 THEN Len(st.children) ELSE @],
                LAMBDA s : afterUnknownTag(bs, limit, s))
      ELSE Bind(entryBody(bs, rt.p, st.next + 1, st.gid + 2, rt.val),
           LAMBDA body :
             Bind([st EXCEPT
                     !.p = body.p,
                     !.i = st.i + wideSlots(rt.val) + 1,
                     !.next = body.next,
                     !.gid = body.gid,
                     !.children = Append(@,
                        Section(st.gid, st.next, body.next,
                           Sprintf(itemName(rt.val), <<st.i + 1>>),
                           << Section(st.gid + 1, st.next, st.next + 1,
                                 Sprintf("tag: %d", <<rt.val>>), <<>>) >>
                           \o body.children))],
                  LAMBDA s : poolLoop(bs, limit, s))))

\* Lines 882-1142: the count read, the count Section and the loop.
poolScan(bytes, index, gid) ==
    LET rc == u2(bytes, newByteParser(bytes, index))
        constantPoolCount == rc.val
    IN  poolLoop(bytes, loopLimit(constantPoolCount),
           [p |-> rc.p, i |-> 0, next |-> index + 2, gid |-> gid + 1,
            children |-> << Section(gid, index, index + 2,
                               Sprintf("constant pool count: %d",
                                       <<constantPoolCount>>), <<>>) >>,
            badOff |-> -1, badSlot |-> -1, badEntry |-> -1])

parseConstantPool(bytes, index, gid) ==
    IF ~SliceInRange(bytes, index) THEN Panicked(index, gid)
    ELSE Bind(poolScan(bytes, index, gid), LAMBDA st :
            Parsed(st.next,
                   Section(st.gid, index, st.next,
                           Sprintf("constant pool with %d items",
                                   <<Len(st.children) - 1>>),
                           st.children),
                   st.gid + 1))

(***************************************************************************)
(* Access flags, this class, super class, interfaces: src/class.go 747-880 *)
(***************************************************************************)

\* The ten flag Sections in the order they are listed as children: the label,
\* the mask tested and the offset of the Section inside the 2-byte field.
flagSections ==
    << [fmt |-> "0x0001 public: %v",     mask |-> 1,     at |-> 1],
       [fmt |-> "0x0008 static: %v",     mask |-> 8,     at |-> 1],
       [fmt |-> "0x0010 final: %v",      mask |-> 16,    at |-> 1],
       [fmt |-> "0x0020 super: %v",      mask |-> 32,    at |-> 1],
       [fmt |-> "0x0100 native: %v",     mask |-> 256,   at |-> 0],
       [fmt |-> "0x0200 interface: %v",  mask |-> 512,   at |-> 0],
       [fmt |-> "0x0400 abstract: %v",   mask |-> 1024,  at |-> 0],
       [fmt |-> "0x1000 synthetic: %v",  mask |-> 4096,  at |-> 0],
       [fmt |-> "0x2000 annotation: %v", mask |-> 8192,  at |-> 0],
       [fmt |-> "0x4000 enum: %v",       mask |-> 16384, at |-> 0] >>

\* flags&mask != 0 for a one-bit mask, as the %v argument (1 true, 0 false).
flagBit(flags, mask) == (flags \div mask) % 2

parseAccessFlags(bytes, index, gid) ==
    IF ~SliceInRange(bytes, index) THEN Panicked(index, gid)
    ELSE LET flags == u2(bytes, newByteParser(bytes, index)).val
         IN  Parsed(index + 2,
                Section(gid + 10, index, index + 2,
                   Sprintf("access flags", <<>>),
                   [k \in 1..10 |->
                      Section(gid + k - 1,
                              index + flagSections[k].at,
                              index + flagSections[k].at + 1,
                              Sprintf(flagSections[k].fmt,
                                      <<flagBit(flags, flagSections[k].mask)>>),
                              <<>>)]),
                gid + 11)

parseThisClass(bytes, index, gid) ==
    IF ~SliceInRange(bytes, index) THEN Panicked(index, gid)
    ELSE LET this == u2(bytes, newByteParser(bytes, index)).val
         IN  Parsed(index + 2,
                Section(gid, index, index + 2,
                   Sprintf("constant pool index for this class: %v", <<this>>),
                   <<>>),
                gid + 1)

parseSuperClass(bytes, index, gid) ==
    IF ~SliceInRange(bytes, index) THEN Panicked(index, gid)
    ELSE LET super == u2(bytes, newByteParser(bytes, index)).val
         IN  Parsed(index + 2,
                Section(gid, index, index + 2,
                   Sprintf("constant pool index for super class: %v", <<super>>),
                   <<>>),
                gid + 1)

\* The loop of lines 752-760: one child per declared interface, the k-th
\* read being made after k - 1 reads of the same width.
interfaceSections(bs, p, next, gid, n) ==
    [next |-> next + 2 * n, gid |-> gid + n,
     children |->
        [k \in 1..n |->
           Section(gid + k - 1, next + 2 * (k - 1), next + 2 * k,
              Sprintf("constant pool index for interface: ",
                      <<u2(bs, parserAfter(bs, p, 2, k - 1)).val>>),
              <<>>)]]

parseInterfaces(bytes, index, gid) ==
    IF ~SliceInRange(bytes, index) THEN Panicked(index, gid)
    ELSE LET rc == u2(bytes, newByteParser(bytes, index))
             interfacesCount == rc.val
             body == interfaceSections(bytes, rc.p, index + 2, gid, interfacesCount)
         IN  Parsed(body.next,
                Section(body.gid, index, body.next,
                   Sprintf("class implements %v interfaces", <<interfacesCount>>),
                   body.children),
                body.gid + 1)

(***************************************************************************)
(* parseClass run alone: src/class.go 1154-1176.                           *)
(***************************************************************************)

\* parsingFuncs[k], 1-based.
parsingFuncs(k, bytes, index, gid) ==
    CASE k = 1 -> parseMagicNumber(bytes, index, gid)
      [] k = 2 -> parseVersion(bytes, index, gid)
      [] k = 3 -> parseConstantPool(bytes, index, gid)
      [] k = 4 -> parseAccessFlags(bytes, index, gid)
      [] k = 5 -> parseThisClass(bytes, index, gid)
      [] k = 6 -> parseSuperClass(bytes, index, gid)
      [] k = 7 -> parseInterfaces(bytes, index, gid)

\* The loop over parsingFuncs from position k on.
RECURSIVE parseLoop(_, _, _, _, _)
parseLoop(bytes, k, index, gid, sections) ==
    IF k > 7 THEN [sections |-> sections, panic |-> FALSE, index |-> index]
    ELSE Bind(parsingFuncs(k, bytes, index, gid), LAMBDA r :
           IF r.panic
           THEN [sections |-> sections, panic |-> TRUE, index |-> index]
           ELSE Bind(IF r.section # NilSection
                     THEN Append(sections, r.section) ELSE sections,
                     LAMBDA ss : parseLoop(bytes, k + 1, r.next, r.gid, ss)))

\* One uninterrupted call: globalId = 0, index := 0, the loop, the result.
parseClass(bytes) == parseLoop(bytes, 1, 0, 0, <<>>)

(***************************************************************************)
(* The Class and its constant-pool items: src/class.go 40-52, 257-355,     *)
(* 453-557.  An item is a record with its Go type as kind and the type's   *)
(* fields; containingClass is the Class that holds the pool.  A string is  *)
(* the sequence of its characters.  A call yields Returned(value) or       *)
(* Panic(why).                                                             *)
(***************************************************************************)

utf8String(contents) == [kind |-> "utf8String", contents |-> contents]
classInfo(nameIndex) == [kind |-> "classInfo", nameIndex |-> nameIndex]
nameAndType(nameIndex, descriptorIndex) ==
    [kind |-> "nameAndType", nameIndex |-> nameIndex,
     descriptorIndex |-> descriptorIndex]
methodRef(classIndex, nameAndTypeIndex) ==
    [kind |-> "methodRef", classIndex |-> classIndex,
     nameAndTypeIndex |-> nameAndTypeIndex]
interfaceMethodRef(classIndex, nameAndTypeIndex) ==
    [kind |-> "interfaceMethodRef", classIndex |-> classIndex,
     nameAndTypeIndex |-> nameAndTypeIndex]
fieldRef(classIndex, nameAndTypeIndex) ==
    [kind |-> "fieldRef", classIndex |-> classIndex,
     nameAndTypeIndex |-> nameAndTypeIndex]

Returned(value) == [panic |-> FALSE, why |-> "", value |-> value]
Panic(why) == [panic |-> TRUE, why |-> why, value |-> <<>>]

\* items[i-1].(T) with i a uint16: i-1 wraps to 65535 for i = 0; the index
\* expression panics out of range and the type assertion panics on another
\* type.
itemAt(items, i, T) ==
    LET k == (i + 65535) % 65536
    IN  IF k >= Len(items) THEN Panic("index out of range")
        ELSE IF items[k + 1].kind # T THEN Panic("interface conversion")
        ELSE Returned(items[k + 1])

\* a := items[i-1].(T); b := items[a.field-1].(utf8String); b.contents
twoHops(items, i, T, field) ==
    LET a == itemAt(items, i, T)
    IN  IF a.panic THEN a
        ELSE LET b == itemAt(items, a.value[field], "utf8String")
             IN  IF b.panic THEN b ELSE Returned(b.value.contents)

\* The pattern of methodName/methodType/fieldName/fieldDescriptor: three hops.
threeHops(items, i, field) ==
    LET nt == itemAt(items, i, "nameAndType")
    IN  IF nt.panic THEN nt
        ELSE LET b == itemAt(items, nt.value[field], "utf8String")
             IN  IF b.panic THEN b ELSE Returned(b.value.contents)

Class_Name(c) == twoHops(c.ConstantPoolItems, c.thisClass, "classInfo", "nameIndex")
Class_getSuperName(c) ==
    twoHops(c.ConstantPoolItems, c.superClass, "classInfo", "nameIndex")

\* className of a methodRef, interfaceMethodRef or fieldRef m of class c.
ref_className(c, m) ==
    twoHops(c.ConstantPoolItems, m.classIndex, "classInfo", "nameIndex")
\* methodName and fieldName.
ref_memberName(c, m) == threeHops(c.ConstantPoolItems, m.nameAndTypeIndex, "nameIndex")
\* methodType and fieldDescriptor.
ref_memberType(c, m) ==
    threeHops(c.ConstantPoolItems, m.nameAndTypeIndex, "descriptorIndex")

classInfo_className(c, ct) ==
    LET b == itemAt(c.ConstantPoolItems, ct.nameIndex, "utf8String")
    IN  IF b.panic THEN b ELSE Returned(b.value.contents)

\* The catch-type lookup of parseCode (lines 77-83): none for catchType 0.
catchTypeClass(c, catchType) ==
    IF catchType = 0 THEN Returned(<<>>)
    ELSE twoHops(c.ConstantPoolItems, catchType, "classInfo", "nameIndex")

(***************************************************************************)
(* parseCode: src/class.go 62-89.  A uint32 is kept as <<hi, lo>>, its two *)
(* 16-bit halves, so that sums wrap at 2^32 as they do in the source.      *)
(***************************************************************************)

Uint32(data) == <<data[1] * 256 + data[2], data[3] * 256 + data[4]>>

\* a + n mod 2^32, for a number n below 2^30.
Add32(a, n) ==
    LET lo == a[2] + n
    IN  <<(a[1] + lo \div 65536) % 65536, lo % 65536>>

Less32(a, b) == a[1] < b[1] \/ (a[1] = b[1] /\ a[2] < b[2])

\* min(a, cap) as a number, for a cap below 2^16.
Capped32(a, cap) == IF a[1] > 0 \/ a[2] > cap THEN cap ELSE a[2]

\* min(b - a, cap) for a < b, for a cap below 2^16.
CappedGap32(a, b, cap) ==
    IF b[1] - a[1] >= 2 THEN cap
    ELSE LET gap == (b[1] - a[1]) * 65536 + b[2] - a[2]
         IN  IF gap > cap THEN cap ELSE gap

\* A loop of n reads of u1 leaves the reader where min(n, what is left + 1)
\* reads leave it: the reads after the one that drains it find nothing.
ReadsThatMatter(bs) == Len(bs) + 1

\* The first exception handler whose catch-type lookup panics, 0 if none.
\* Handler k's catch type is the 4th u2 of its 8 bytes; p is the parser
\* before the handlers.  Past the end of the buffer every catch type reads 0.
firstBadHandler(bs, p, n, c) ==
    LET kmax == IF n > Len(bs) \div 8 + 1 THEN Len(bs) \div 8 + 1 ELSE n
        bad == { k \in 1..kmax :
                   catchTypeClass(c, u2(bs, parserAfter(bs, p, 2, 4 * k - 1)).val).panic }
    IN  IF bad = {} THEN 0 ELSE CHOOSE k \in bad : \A j \in bad : k <= j

\* parseCode from the exception handlers on: r5 is the read of their count,
\* made after the code.
codeHandlers(bs, length, c, maxStack, maxLocals, codeLength, r5) ==
    LET numExceptionHandlers == r5.val
        bad == firstBadHandler(bs, r5.p, numExceptionHandlers, c)
        k32 == Add32(codeLength, 10 + numExceptionHandlers * 8)
        padding == IF Less32(k32, length)
                   THEN CappedGap32(k32, length, ReadsThatMatter(bs)) ELSE 0
    IN  IF bad > 0
        THEN [panic |-> TRUE, p |-> parserAfter(bs, r5.p, 2, 4 * bad),
              maxStack |-> maxStack, maxLocals |-> maxLocals,
              codeLength |-> codeLength, handlers |-> bad, decoded |-> k32]
        ELSE [panic |-> FALSE,
              p |-> parserAfter(bs, parserAfter(bs, r5.p, 2, 4 * numExceptionHandlers),
                                1, padding),
              maxStack |-> maxStack, maxLocals |-> maxLocals,
              codeLength |-> codeLength, handlers |-> numExceptionHandlers,
              decoded |-> k32]

\* parseCode(cr, length, method), with c the Class of the method: whether it
\* panics, the parser when it returns or panics, and what it decoded.
parseCode(bs, cr, length, c) ==
    LET maxStack == u2(bs, cr).val
        maxLocals == u2(bs, parserAfter(bs, cr, 2, 1)).val
    IN  Bind(u4(bs, parserAfter(bs, cr, 2, 2)), LAMBDA r3 :
          Bind(parserAfter(bs, r3.p, 1,
                           Capped32(Uint32(r3.val), ReadsThatMatter(bs))), LAMBDA p4 :
            Bind(u2(bs, p4), LAMBDA r5 :
              codeHandlers(bs, length, c, maxStack, maxLocals, Uint32(r3.val), r5))))

(***************************************************************************)
(* ParseClass and parseSigniture: src/class.go 138-221, 357-407.           *)
(***************************************************************************)

\* The zero value of Class: what the named result c of ParseClass starts as.
\* ParseClass never assigns ConstantPoolItems (lines 151-154 are commented
\* out).
ZeroClass ==
    [MinorVersion |-> 0, MajorVersion |-> 0, ConstantPoolItems |-> <<>>,
     AccessFlags |-> 0, thisClass |-> 0, superClass |-> 0,
     interfaces |-> <<>>, fields |-> <<>>, methods |-> <<>>]

\* newClassDecoder: cr is a local of the function, so the assignment of
\* cr.err for a bad magic number is in the parser it returns.
newClassDecoder(bs, p) ==
    LET r == u4(bs, p)
    IN  [pos |-> r.p.pos, err |-> r.p.err \/ r.val # MagicNumber]

TypeNames ==
    [B |-> "byte", C |-> "char", D |-> "double", F |-> "float", I |-> "int",
     J |-> "long", S |-> "short", Z |-> "boolean", V |-> "void",
     L |-> "reference"]

\* The loop of parseSigniture over the characters of sig from the k-th on: s
\* is the list so far, className whether an L...; name is being skipped.
RECURSIVE signitureLoop(_, _, _, _)
signitureLoop(sig, k, s, className) ==
    IF k > Len(sig) THEN Returned(s)
    ELSE IF className THEN signitureLoop(sig, k + 1, s, sig[k] # ";")
    ELSE IF sig[k] \in {"(", ")", "["} THEN signitureLoop(sig, k + 1, s, FALSE)
    ELSE IF sig[k] \in DOMAIN TypeNames
    THEN signitureLoop(sig, k + 1, Append(s, TypeNames[sig[k]]), sig[k] = "L")
    ELSE Panic("Can't parse signiture")

parseSigniture(sig) == signitureLoop(sig, 1, <<>>, FALSE)

Drained(bs, p) == p.err \/ p.pos >= Len(bs)

\* The loops that throw attributes away (lines 172-180, 211-218): n times a
\* u2, a u4 length and length times a u1.  On a drained reader every read
\* returns 0 and the turns left change nothing.
RECURSIVE skipAttributes(_, _, _)
skipAttributes(bs, p, n) ==
    IF n = 0 \/ Drained(bs, p) THEN p
    ELSE LET r == u4(bs, u2(bs, p).p)
             q == parserAfter(bs, r.p, 1,
                              Capped32(Uint32(r.val), ReadsThatMatter(bs)))
         IN  Bind(q, LAMBDA x : skipAttributes(bs, x, n - 1))

ZeroMember == [accessFlags |-> 0, nameIndex |-> 0, descriptorIndex |-> 0]

\* The three u2 every field and method starts with.
readMember(bs, p) ==
    [member |-> [accessFlags |-> u2(bs, p).val,
                 nameIndex |-> u2(bs, parserAfter(bs, p, 2, 1)).val,
                 descriptorIndex |-> u2(bs, parserAfter(bs, p, 2, 2)).val],
     p |-> parserAfter(bs, p, 2, 3)]

\* The fields loop (lines 166-181): the fields and the parser after them.
RECURSIVE readFields(_, _, _)
readFields(bs, p, n) ==
    IF n = 0 THEN [fields |-> <<>>, p |-> p]
    ELSE IF Drained(bs, p) THEN [fields |-> [k \in 1..n |-> ZeroMember], p |-> p]
    ELSE LET m == readMember(bs, p)
             a == u2(bs, m.p)
             q == skipAttributes(bs, a.p, a.val)
         IN  Bind(q, LAMBDA x :
                LET rest == readFields(bs, x, n - 1)
                IN  [fields |-> <<m.member>> \o rest.fields, p |-> rest.p])

\* The attributes of a method (lines 194-208): a Code attribute goes to
\* parseCode, any other is thrown away; the name lookup can panic.
RECURSIVE methodAttributes(_, _, _, _)
methodAttributes(bs, p, c, n) ==
    IF n = 0 THEN [panic |-> FALSE, p |-> p]
    ELSE LET name == u2(bs, p)
             length == u4(bs, name.p)
             actualName == itemAt(c.ConstantPoolItems, name.val, "utf8String")
         IN  IF actualName.panic THEN [panic |-> TRUE, p |-> length.p]
             ELSE IF actualName.value.contents = <<"C", "o", "d", "e">>
             THEN LET code == parseCode(bs, length.p, Uint32(length.val), c)
                  IN  IF code.panic THEN [panic |-> TRUE, p |-> code.p]
                      ELSE Bind(code.p, LAMBDA x : methodAttributes(bs, x, c, n - 1))
             ELSE Bind(parserAfter(bs, length.p, 1,
                                   Capped32(Uint32(length.val), ReadsThatMatter(bs))),
                       LAMBDA x : methodAttributes(bs, x, c, n - 1))

\* One turn of the methods loop (lines 185-209).
parseMethod(bs, p, c) ==
    LET m == readMember(bs, p)
        sig == itemAt(c.ConstantPoolItems, m.member.descriptorIndex, "utf8String")
        Signiture == parseSigniture(sig.value.contents)
        attrCount == u2(bs, m.p)
        attrs == methodAttributes(bs, attrCount.p, c, attrCount.val)
    IN  IF sig.panic THEN [panic |-> TRUE, why |-> sig.why, p |-> m.p]
        ELSE IF Signiture.panic
        THEN [panic |-> TRUE, why |-> Signiture.why, p |-> m.p]
        ELSE [panic |-> attrs.panic,
              why |-> IF attrs.panic THEN "attribute" ELSE "",
              p |-> attrs.p]

(***************************************************************************)
(* The buffers explored.  They are built by laying out the class-file      *)
(* format by hand: well-formed files, the same files with a wrong magic    *)
(* number, with a wrong declared pool count, cut short at every offset, or *)
(* with an unknown tag in the pool.                                        *)
(***************************************************************************)

U2(n) == <<n \div 256, n % 256>>

RECURSIVE Concat(_)
Concat(ss) == IF ss = <<>> THEN <<>> ELSE Head(ss) \o Concat(Tail(ss))

Utf8Entry(len) == <<1>> \o U2(len) \o [k \in 1..len |-> 72]
LongEntry == <<5, 0, 0, 0, 0, 0, 0, 0, 7>>
DoubleEntry == <<6, 64, 9, 33, 251, 84, 68, 45, 24>>
ClassEntry == <<7, 0, 2>>
IntEntry == <<3, 0, 0, 0, 42>>
UnknownEntry == <<2, 0, 1>>

GoodEntries ==
    { Utf8Entry(len) : len \in 0..MaxUtf8Len } \cup
    { IntEntry, <<4, 63, 128, 0, 0>>, LongEntry,
      DoubleEntry, ClassEntry, <<8, 0, 1>>,
      <<9, 0, 1, 0, 2>>, <<10, 0, 1, 0, 2>>, <<11, 0, 1, 0, 2>>,
      <<12, 0, 1, 0, 1>>, <<15, 1, 0, 2>>, <<16, 0, 1>>, <<18, 0, 0, 0, 1>> }

AllEntries == GoodEntries \cup { UnknownEntry, <<19>> }

\* The entries a pool of several entries starts with.
LeadEntries == { Utf8Entry(MaxUtf8Len), LongEntry, DoubleEntry, ClassEntry }

Pools ==
    { <<>> } \cup
    UNION { { Append(lead, e) : lead \in [1..(n - 1) -> LeadEntries],
                                e \in AllEntries } : n \in 1..MaxEntries }

GoodPools == { pool \in Pools : \A k \in 1..Len(pool) : pool[k] \in GoodEntries }

\* The pool slots a sequence of entries takes: two for a long or a double.
RECURSIVE Slots(_)
Slots(pool) ==
    IF pool = <<>> THEN 0
    ELSE (IF Head(pool)[1] \in {5, 6} THEN 2 ELSE 1) + Slots(Tail(pool))

NoMembers == <<0, 0, 0, 0, 0, 0>>

\* One field, one method with one 1-byte attribute, one empty class attribute.
SomeMembers ==
    <<0, 1, 0, 2, 0, 1, 0, 1, 0, 0>> \o
    <<0, 1, 0, 1, 0, 1, 0, 1, 0, 1, 0, 1, 0, 0, 0, 1, 9>> \o
    <<0, 1, 0, 1, 0, 0, 0, 0>>

ClassFile(magic, count, pool, flags, interfaces, members) ==
    magic \o <<0, 0, 0, 52>> \o U2(count) \o Concat(pool) \o U2(flags) \o
    <<0, 1, 0, 2>> \o U2(interfaces) \o
    Concat([k \in 1..interfaces |-> U2(k)]) \o members

BasePool == <<ClassEntry, Utf8Entry(MaxUtf8Len)>>

\* Structurally well-formed files: every pool of known entries with the right
\* count, and every choice of flags, interfaces and members.
WellFormedFiles ==
    { ClassFile(MagicNumber, Slots(pool) + 1, pool, 33, 0, NoMembers) :
        pool \in GoodPools } \cup
    { ClassFile(MagicNumber, Slots(BasePool) + 1, BasePool, flags, n, members) :
        flags \in {0, 33, 30521}, n \in 0..MaxInterfaces,
        members \in {NoMembers, SomeMembers} }

\* A pool with an unknown tag in it, as its last entry or with a known entry
\* after it, the rest of the file as if well formed.
UnknownTagFiles ==
    { ClassFile(MagicNumber, Slots(pool) + 1, pool, 33, 0, NoMembers) :
        pool \in (Pools \ GoodPools) \cup
                 { <<<<19>>, ClassEntry>>, <<<<19>>, LongEntry>>,
                   <<ClassEntry, <<19>>, Utf8Entry(MaxUtf8Len)>> } }

\* A declared count of 0, of 1, or of one slot more than the pool holds.
WrongCountFiles ==
    { ClassFile(MagicNumber, count, pool, 33, 0, NoMembers) :
        count \in {0, 1, 4},
        pool \in { <<>>, <<ClassEntry>>, <<LongEntry>>, <<ClassEntry, IntEntry>> } }

TruncationBases ==
    { ClassFile(MagicNumber, 4, <<Utf8Entry(MaxUtf8Len), LongEntry>>,
                33, MaxInterfaces, NoMembers),
      ClassFile(MagicNumber, 2, <<ClassEntry>>, 33, 0, SomeMembers) }

Prefixes(bs) == { SubSeq(bs, 1, n) : n \in 0..Len(bs) }

TruncatedFiles == UNION { Prefixes(bs) : bs \in TruncationBases }

WrongMagic == <<202, 254, 186, 191>>

WrongMagicFiles ==
    Prefixes(ClassFile(WrongMagic, 2, <<ClassEntry>>, 33, MaxInterfaces, NoMembers))
    \cup { ClassFile(<<0, 0, 0, 0>>, 3, BasePool, 33, 0, SomeMembers) }

\* The inputs a sequential caller decodes one after another: they differ in
\* the number of ids their decode draws, and one of them does not return.
SeqInputs ==
    { ClassFile(MagicNumber, 1, <<>>, 33, 0, NoMembers),
      ClassFile(MagicNumber, Slots(BasePool) + 1, BasePool, 33, MaxInterfaces, NoMembers),
      ClassFile(MagicNumber, 3, <<LongEntry>>, 33, 0, SomeMembers),
      ClassFile(WrongMagic, 2, <<ClassEntry>>, 33, 0, NoMembers),
      ClassFile(MagicNumber, 3, <<ClassEntry, <<19>>>>, 33, 0, NoMembers),
      <<202, 254, 186, 190, 0>> }

Inputs ==
    WellFormedFiles \cup UnknownTagFiles \cup WrongCountFiles \cup
    TruncatedFiles \cup WrongMagicFiles

(***************************************************************************)
(* The server: src/unnamed/part_000 28-58 and parseClass, src/class.go     *)
(* 1154-1176.  classFile is the file main loaded; every /class request is  *)
(* served by a handler that calls classJSON(classFile).                    *)
(***************************************************************************)

VARIABLES
    classFile,   \* the bytes main read; also the buffer of the parser below
    globalId,    \* var globalId int
    pc,          \* per handler: "idle", "running", "returned", "panicked"
    fi,          \* per handler: the position of parseClass in parsingFuncs
    index,       \* per handler: parseClass's index
    sections,    \* per handler: parseClass's sections
    unknownTag,  \* per handler: where parseConstantPool met an unknown tag
    served,      \* the number of requests taken so far
    parser,      \* a byteParser a caller holds, and the reader under it
    lastRead,    \* the last read made on parser: its width, result, shortfall
    everShort,   \* whether some read on parser has come up short
    class,       \* the Class (c) that ParseClass fills and the accessors use
    call,        \* the call in progress on class or parser, or its outcome
    kept         \* per input: the forest a sequential caller kept of it

vars == <<classFile, globalId, pc, fi, index, sections, unknownTag, served,
          parser, lastRead, everShort, class, call, kept>>

handlerVars == <<globalId, pc, fi, index, sections, unknownTag, served>>
parserVars == <<parser, lastRead, everShort>>
classVars == <<class, call, kept>>

Handlers == {"h1", "h2"}

NoUnknownTag == [off |-> -1, slot |-> -1, entry |-> -1]
NoRead == [w |-> 0, data |-> <<>>, short |-> FALSE, before |-> 0,
           afterShort |-> FALSE]

NoCall == [op |-> "none", panic |-> FALSE, value |-> <<>>]
Call(op, panic, value) == [op |-> op, panic |-> panic, value |-> value]

NoForest == [known |-> FALSE, forest |-> <<>>]

NothingDecoded ==
    /\ class = ZeroClass
    /\ call = NoCall
    /\ kept = [bs \in SeqInputs |-> NoForest]

IdleHandlers ==
    /\ globalId = 0
    /\ pc = [h \in Handlers |-> "idle"]
    /\ fi = [h \in Handlers |-> 0]
    /\ index = [h \in Handlers |-> 0]
    /\ sections = [h \in Handlers |-> <<>>]
    /\ unknownTag = [h \in Handlers |-> NoUnknownTag]
    /\ served = 0

Init ==
    /\ classFile \in Inputs
    /\ IdleHandlers
    /\ parser = newByteParser(classFile, 0)
    /\ lastRead = NoRead
    /\ everShort = FALSE
    /\ NothingDecoded

\* parseClass called without line 1165: the counter is left as it is.
RequestKeepsCounter(h) ==
    /\ pc[h] = "idle"
    /\ served < MaxRequests
    /\ served' = served + 1
    /\ pc' = [pc EXCEPT ![h] = "running"]
    /\ fi' = [fi EXCEPT ![h] = 1]
    /\ index' = [index EXCEPT ![h] = 0]
    /\ sections' = [sections EXCEPT ![h] = <<>>]
    /\ unknownTag' = [unknownTag EXCEPT ![h] = NoUnknownTag]
    /\ UNCHANGED <<classFile, globalId, parserVars, classVars>>

\* A request arrives: classJSON calls parseClass, which resets the counter
\* (lines 1165-1168).
Request(h) ==
    /\ pc[h] = "idle"
    /\ served < MaxRequests
    /\ served' = served + 1
    /\ pc' = [pc EXCEPT ![h] = "running"]
    /\ globalId' = 0
    /\ fi' = [fi EXCEPT ![h] = 1]
    /\ index' = [index EXCEPT ![h] = 0]
    /\ sections' = [sections EXCEPT ![h] = <<>>]
    /\ unknownTag' = [unknownTag EXCEPT ![h] = NoUnknownTag]
    /\ UNCHANGED <<classFile, parserVars, classVars>>

\* One turn of the loop of lines 1169-1174 with f's result r.
LoopBody(h, r) ==
    /\ IF r.panic
       THEN /\ pc' = [pc EXCEPT ![h] = "panicked"]
            /\ UNCHANGED <<globalId, fi, index, sections>>
       ELSE /\ index' = [index EXCEPT ![h] = r.next]
            /\ sections' = [sections EXCEPT ![h] =
                               IF r.section # NilSection
                               THEN Append(@, r.section) ELSE @]
            /\ globalId' = r.gid
            /\ fi' = [fi EXCEPT ![h] = @ + 1]
            /\ UNCHANGED pc
    /\ UNCHANGED <<classFile, served, parserVars, classVars>>

ParseMagicNumber(h) ==
    /\ pc[h] = "running" /\ fi[h] = 1
    /\ LoopBody(h, parseMagicNumber(classFile, index[h], globalId))
    /\ UNCHANGED unknownTag

ParseVersion(h) ==
    /\ pc[h] = "running" /\ fi[h] = 2
    /\ LoopBody(h, parseVersion(classFile, index[h], globalId))
    /\ UNCHANGED unknownTag

ParseConstantPool(h) ==
    /\ pc[h] = "running" /\ fi[h] = 3
    /\ LoopBody(h, parseConstantPool(classFile, index[h], globalId))
    /\ unknownTag' = [unknownTag EXCEPT ![h] =
          IF SliceInRange(classFile, index[h])
          THEN LET st == poolScan(classFile, index[h], globalId)
               IN  [off |-> st.badOff, slot |-> st.badSlot, entry |-> st.badEntry]
          ELSE @]

ParseAccessFlags(h) ==
    /\ pc[h] = "running" /\ fi[h] = 4
    /\ LoopBody(h, parseAccessFlags(classFile, index[h], globalId))
    /\ UNCHANGED unknownTag

ParseThisClass(h) ==
    /\ pc[h] = "running" /\ fi[h] = 5
    /\ LoopBody(h, parseThisClass(classFile, index[h], globalId))
    /\ UNCHANGED unknownTag

ParseSuperClass(h) ==
    /\ pc[h] = "running" /\ fi[h] = 6
    /\ LoopBody(h, parseSuperClass(classFile, index[h], globalId))
    /\ UNCHANGED unknownTag

ParseInterfaces(h) ==
    /\ pc[h] = "running" /\ fi[h] = 7
    /\ LoopBody(h, parseInterfaces(classFile, index[h], globalId))
    /\ UNCHANGED unknownTag

\* return sections (line 1175)
Return(h) ==
    /\ pc[h] = "running" /\ fi[h] = 8
    /\ pc' = [pc EXCEPT ![h] = "returned"]
    /\ UNCHANGED <<classFile, globalId, fi, index, sections, unknownTag, served,
                   parserVars, classVars>>

\* The handler is done with the request: the response is written (or gin's
\* recovery answers for a panic) and the forest is dropped.
Respond(h) ==
    /\ pc[h] \in {"returned", "panicked"}
    /\ pc' = [pc EXCEPT ![h] = "idle"]
    /\ fi' = [fi EXCEPT ![h] = 0]
    /\ index' = [index EXCEPT ![h] = 0]
    /\ sections' = [sections EXCEPT ![h] = <<>>]
    /\ unknownTag' = [unknownTag EXCEPT ![h] = NoUnknownTag]
    /\ UNCHANGED <<classFile, globalId, served, parserVars, classVars>>

Serve(h) ==
    \/ Request(h)
    \/ ParseMagicNumber(h)
    \/ ParseVersion(h)
    \/ ParseConstantPool(h)
    \/ ParseAccessFlags(h)
    \/ ParseThisClass(h)
    \/ ParseSuperClass(h)
    \/ ParseInterfaces(h)
    \/ Return(h)
    \/ Respond(h)

\* Requests served one at a time.
Next == Serve("h1")

Spec == Init /\ [][Next]_vars

\* Requests served concurrently: gin runs each handler in its own goroutine,
\* and the steps of two parseClass calls interleave.
ConcInputs ==
    { ClassFile(MagicNumber, Slots(BasePool) + 1, BasePool, 33, n, NoMembers) :
        n \in 0..MaxInterfaces } \cup
    { ClassFile(MagicNumber, 1, <<>>, 33, 0, NoMembers),
      ClassFile(MagicNumber, 3, <<LongEntry>>, 33, 0, SomeMembers) }

ConcInit ==
    /\ classFile \in ConcInputs
    /\ IdleHandlers
    /\ parser = newByteParser(classFile, 0)
    /\ lastRead = NoRead
    /\ everShort = FALSE
    /\ NothingDecoded

ConcNext == \E h \in Handlers : Serve(h)

ConcSpec == ConcInit /\ [][ConcNext]_vars

(***************************************************************************)
(* A caller that makes parseClass calls one after another, on the same     *)
(* input or on another (parseClass takes the bytes as its argument), and   *)
(* keeps the forest each call returned.  globalId is what the call before  *)
(* left.                                                                   *)
(***************************************************************************)

SeqInit ==
    /\ classFile \in SeqInputs
    /\ IdleHandlers
    /\ parser = newByteParser(classFile, 0)
    /\ lastRead = NoRead
    /\ everShort = FALSE
    /\ NothingDecoded

\* The caller turns to another input; served counts the calls on the input
\* at hand.
Load ==
    /\ \A h \in Handlers : pc[h] = "idle"
    /\ \E bs \in SeqInputs \ {classFile} : classFile' = bs
    /\ served' = 0
    /\ UNCHANGED <<globalId, pc, fi, index, sections, unknownTag, parserVars,
                   classVars>>

\* The caller keeps the forest parseClass returned for this input.
Keep(h) ==
    /\ pc[h] = "returned"
    /\ kept' = [kept EXCEPT ![classFile] = [known |-> TRUE, forest |-> sections[h]]]
    /\ pc' = [pc EXCEPT ![h] = "idle"]
    /\ fi' = [fi EXCEPT ![h] = 0]
    /\ index' = [index EXCEPT ![h] = 0]
    /\ sections' = [sections EXCEPT ![h] = <<>>]
    /\ unknownTag' = [unknownTag EXCEPT ![h] = NoUnknownTag]
    /\ UNCHANGED <<classFile, globalId, served, parserVars, class, call>>

SeqNext == Serve("h1") \/ Keep("h1") \/ Load

SeqSpec == SeqInit /\ [][SeqNext]_vars

(***************************************************************************)
(* A byteParser in the hands of a caller that makes reads of any width in  *)
(* any order: src/class.go 91-136.                                         *)
(***************************************************************************)

CursorBuffers == Prefixes(<<202, 254, 186, 190, 0, 0, 0, 52, 0, 2, 7, 0, 2>>)

CursorInit ==
    /\ classFile \in CursorBuffers
    /\ IdleHandlers
    /\ parser \in { newByteParser(classFile, start) : start \in 0..Len(classFile) }
    /\ lastRead = NoRead
    /\ everShort = FALSE
    /\ NothingDecoded

\* The caller calls parser.uN(): w is the width, `before` the reader position
\* at the call.
Read(w) ==
    LET r == readN(classFile, parser, w)
    IN  /\ parser' = r.p
        /\ lastRead' = [w |-> w, data |-> r.data, short |-> r.short,
                        before |-> parser.pos, afterShort |-> everShort]
        /\ everShort' = (everShort \/ r.short)
        /\ UNCHANGED <<classFile, handlerVars, classVars>>

ReadU1 == Read(1)
ReadU2 == Read(2)
ReadU4 == Read(4)
ReadU8 == Read(8)

CursorNext == ReadU1 \/ ReadU2 \/ ReadU4 \/ ReadU8

CursorSpec == CursorInit /\ [][CursorNext]_vars

(***************************************************************************)
(* Callers of the Class: the accessors of src/class.go 257-355 called on a *)
(* Class whose pool holds items, and parseCode (62-89) called on a parser  *)
(* at the start of a Code attribute's body.                                *)
(***************************************************************************)

\* A pool whose references all resolve; the pools that differ from it in one
\* reference; and the empty pool ParseClass leaves.
XrefItems ==
    << utf8String(<<"A">>), classInfo(1), nameAndType(1, 1), methodRef(2, 3),
       fieldRef(2, 3), interfaceMethodRef(2, 3) >>

PoolIndexes == 0..MaxPoolIndex

XrefPools ==
    { <<>>, XrefItems } \cup
    { [XrefItems EXCEPT ![2] = classInfo(v)] : v \in PoolIndexes } \cup
    { [XrefItems EXCEPT ![3] = nameAndType(v, w)] :
        v \in {0, 1, 2, MaxPoolIndex}, w \in {0, 1, 2, MaxPoolIndex} } \cup
    { [XrefItems EXCEPT ![k].classIndex = v] : k \in 4..6, v \in PoolIndexes } \cup
    { [XrefItems EXCEPT ![k].nameAndTypeIndex = v] : k \in 4..6, v \in PoolIndexes }

ClassWith(items, this, super) ==
    [ZeroClass EXCEPT !.ConstantPoolItems = items, !.thisClass = this,
                      !.superClass = super]

XrefClasses ==
    { ClassWith(items, t[1], t[2]) :
        items \in XrefPools,
        t \in { <<2, 2>>, <<0, 2>>, <<2, 1>>, <<MaxPoolIndex, 2>>, <<1, 0>> } }

U4(hi, lo) == U2(hi) \o U2(lo)

\* The body of a Code attribute: max stack, max locals, the code, the
\* exception handlers with the given catch types, and what follows them.
CodeBody(codeLength, code, catchTypes, rest) ==
    <<0, 1, 0, 1>> \o codeLength \o code \o U2(Len(catchTypes)) \o
    Concat([k \in 1..Len(catchTypes) |-> <<0, 0, 0, 1, 0, 1>> \o U2(catchTypes[k])])
    \o rest

Trailer == <<9, 9, 9, 9, 9, 9, 9, 9, 9, 9, 9, 9>>

CodeBodies ==
    { CodeBody(U4(0, n), [k \in 1..n |-> 177], cts, Trailer) :
        n \in 0..MaxCodeLength,
        cts \in { <<>>, <<0>>, <<2>>, <<1>>, <<0, MaxPoolIndex>> } } \cup
    { CodeBody(U4(65535, 65526), <<177>>, <<>>, Trailer),
      CodeBody(U4(0, 3), <<177>>, <<>>, <<>>),
      <<0, 1, 0>>, <<>> }

\* Declared attribute lengths: less than, equal to and more than what the
\* body holds.
DeclaredLengths ==
    { <<0, n>> : n \in {0, 2, 10, 11, 12, 18, 20} } \cup { <<65535, 65535>> }

ClassInit ==
    /\ \/ classFile = CodeBody(U4(0, 1), <<177>>, <<2>>, Trailer) /\ class \in XrefClasses
       \/ classFile \in CodeBodies
          /\ class \in { ClassWith(XrefItems, 2, 2), ZeroClass }
    /\ IdleHandlers
    /\ parser = newByteParser(classFile, 0)
    /\ lastRead = NoRead
    /\ everShort = FALSE
    /\ call = NoCall
    /\ kept = [bs \in SeqInputs |-> NoForest]

\* A call of an accessor that returns or panics.
Accessor(op, result) ==
    /\ call' = Call(op, result.panic, result.value)
    /\ UNCHANGED <<classFile, handlerVars, parserVars, class, kept>>

RefKinds == {"methodRef", "interfaceMethodRef", "fieldRef"}

\* The items of the given kinds in the pool: the receivers of the methods.
ItemsOf(kinds) ==
    { class.ConstantPoolItems[k] :
        k \in { j \in 1..Len(class.ConstantPoolItems) :
                  class.ConstantPoolItems[j].kind \in kinds } }

CallName == Accessor("Class.Name", Class_Name(class))

CallGetSuperName == Accessor("Class.getSuperName", Class_getSuperName(class))

CallRefClassName ==
    \E m \in ItemsOf(RefKinds) : Accessor("ref.className", ref_className(class, m))

CallRefMemberName ==
    \E m \in ItemsOf(RefKinds) : Accessor("ref.memberName", ref_memberName(class, m))

CallRefMemberType ==
    \E m \in ItemsOf(RefKinds) : Accessor("ref.memberType", ref_memberType(class, m))

CallClassInfoClassName ==
    \E ct \in ItemsOf({"classInfo"}) :
       Accessor("classInfo.className", classInfo_className(class, ct))

\* parseCode(cr, length, method) on a parser at the start of the body, for a
\* method of class.
ParseCode ==
    \E length \in DeclaredLengths :
       LET r == parseCode(classFile, parser, length, class)
       IN  /\ parser.pos = 0
           /\ call.op # "parseCode"
           /\ parser' = r.p
           /\ call' = Call("parseCode", r.panic,
                           [length |-> length, before |-> parser.pos,
                            codeLength |-> r.codeLength, handlers |-> r.handlers,
                            decoded |-> r.decoded])
           /\ UNCHANGED <<classFile, handlerVars, lastRead, everShort, class, kept>>

ClassNext ==
    \/ CallName
    \/ CallGetSuperName
    \/ CallRefClassName
    \/ CallRefMemberName
    \/ CallRefMemberType
    \/ CallClassInfoClassName
    \/ ParseCode

ClassSpec == ClassInit /\ [][ClassNext]_vars

(***************************************************************************)
(* ParseClass(r) on a reader over classFile: src/class.go 138-221.  parser *)
(* is cr, class is the result c, call.value tells where ParseClass is.     *)
(* parseSigniture (357-407) is also called on its own.                     *)
(***************************************************************************)

\* One field with two attributes, no method, one class attribute.
FieldMembers ==
    <<0, 1, 0, 2, 0, 1, 0, 1, 0, 2, 0, 1, 0, 0, 0, 2, 9, 9, 0, 1, 0, 0, 0, 0>> \o
    <<0, 0>> \o <<0, 1, 0, 1, 0, 0, 0, 1, 9>>

ParseInputs ==
    { ClassFile(MagicNumber, 1, <<>>, 33, n, members) :
        n \in 0..MaxInterfaces,
        members \in {NoMembers, SomeMembers, FieldMembers} } \cup
    Prefixes(ClassFile(MagicNumber, 1, <<>>, 33, MaxInterfaces, FieldMembers)) \cup
    { ClassFile(MagicNumber, Slots(BasePool) + 1, BasePool, 33, 0, SomeMembers),
      ClassFile(WrongMagic, 1, <<>>, 33, 0, SomeMembers) }

Signitures ==
    { <<>>, <<"(", ")", "V">>, <<"(", "I", "[", "J", "L", "a", ";", ")", "V">>,
      <<"(", "X", ")", "V">>, <<"(", "L", "X", ";", "I", ")", "Q">> }

ParseInit ==
    /\ classFile \in ParseInputs
    /\ IdleHandlers
    /\ parser = newByteParser(classFile, 0)
    /\ lastRead = NoRead
    /\ everShort = FALSE
    /\ NothingDecoded

InParseClass(at) == call.op = "ParseClass" /\ ~call.panic /\ call.value.at = at

\* Lines 148-164: the decoder, the versions, the pool count (the pool itself
\* is not read), the flags, this and super class, the interfaces.
ParseClassHeader ==
    LET cr == newClassDecoder(classFile, parser)
        field(j) == u2(classFile, parserAfter(classFile, cr, 2, j - 1))
        minor == field(1)
        major == field(2)
        cpc == field(3)
        flags == field(4)
        this == field(5)
        super == field(6)
        interfacesCount == field(7)
    IN  /\ call = NoCall
        /\ class' = [class EXCEPT
              !.MinorVersion = minor.val, !.MajorVersion = major.val,
              !.AccessFlags = flags.val, !.thisClass = this.val,
              !.superClass = super.val,
              !.interfaces = [k \in 1..interfacesCount.val |->
                 u2(classFile, parserAfter(classFile, interfacesCount.p, 2, k - 1)).val]]
        /\ parser' = parserAfter(classFile, interfacesCount.p, 2, interfacesCount.val)
        /\ call' = Call("ParseClass", FALSE,
                        [at |-> "fields", methodsCount |-> 0, methodsLeft |-> 0])
        /\ UNCHANGED <<classFile, handlerVars, lastRead, everShort, kept>>

\* Lines 166-184: the fields, then the methods count.
ParseClassFields ==
    LET fieldsCount == u2(classFile, parser)
        r == readFields(classFile, fieldsCount.p, fieldsCount.val)
        methodsCount == u2(classFile, r.p)
    IN  /\ InParseClass("fields")
        /\ class' = [class EXCEPT !.fields = r.fields]
        /\ parser' = methodsCount.p
        /\ call' = Call("ParseClass", FALSE,
                        [at |-> "methods", methodsCount |-> methodsCount.val,
                         methodsLeft |-> methodsCount.val])
        /\ UNCHANGED <<classFile, handlerVars, lastRead, everShort, kept>>

\* Lines 185-209: one turn of the methods loop; a panic ends ParseClass.
ParseClassMethod ==
    LET r == parseMethod(classFile, parser, class)
    IN  /\ InParseClass("methods")
        /\ call.value.methodsLeft > 0
        /\ parser' = r.p
        /\ call' = Call("ParseClass", r.panic,
                        [call.value EXCEPT !.methodsLeft = IF r.panic THEN @ ELSE @ - 1])
        /\ class' = IF r.panic THEN class
                    ELSE [class EXCEPT !.methods = Append(@, readMember(classFile, parser).member)]
        /\ UNCHANGED <<classFile, handlerVars, lastRead, everShort, kept>>

\* Lines 211-220: the class attributes, and return c, cr.err.
ParseClassAttributes ==
    LET attrCount == u2(classFile, parser)
    IN  /\ InParseClass("methods")
        /\ call.value.methodsLeft = 0
        /\ parser' = skipAttributes(classFile, attrCount.p, attrCount.val)
        /\ call' = Call("ParseClass", FALSE, [call.value EXCEPT !.at = "returned"])
        /\ UNCHANGED <<classFile, handlerVars, lastRead, everShort, class, kept>>

\* parseSigniture(sig) called with a descriptor.
ParseSigniture ==
    \E sig \in Signitures :
       LET r == parseSigniture(sig)
       IN  /\ call = NoCall
           /\ call' = Call("parseSigniture", r.panic, [sig |-> sig, s |-> r.value])
           /\ UNCHANGED <<classFile, handlerVars, parserVars, class, kept>>

ParseNext ==
    \/ ParseClassHeader
    \/ ParseClassFields
    \/ ParseClassMethod
    \/ ParseClassAttributes
    \/ ParseSigniture

ParseSpec == ParseInit /\ [][ParseNext]_vars

(***************************************************************************)
(* Forests.                                                                *)
(***************************************************************************)

\* The id a depth-first walk of sec visits last.
RECURSIVE LastVisited(_)
LastVisited(sec) ==
    IF sec.Children = <<>> THEN sec.Id
    ELSE LastVisited(sec.Children[Len(sec.Children)])

\* The ids met by the depth-first walk of a list of Sections (each Section
\* before its children, the children in list order) are strictly increasing.
RECURSIVE WalkIncreasing(_)
WalkIncreasing(list) ==
    \A k \in 1..Len(list) :
       /\ list[k].Children # <<>> => list[k].Id < list[k].Children[1].Id
       /\ WalkIncreasing(list[k].Children)
       /\ k < Len(list) => LastVisited(list[k]) < list[k + 1].Id

HasMagic(bytes) == Len(bytes) >= 4 /\ SubSeq(bytes, 1, 4) = MagicNumber

(***************************************************************************)
(* The properties.                                                         *)
(***************************************************************************)

\* C1: for an input of length >= 4 whose first 4 bytes are not the magic
\* number, parseClass decodes nothing: no Section is ever put in its forest.
C1_WrongMagicDecodesNothing ==
    \A h \in Handlers :
       (Len(classFile) >= 4 /\ ~HasMagic(classFile)) => sections[h] = <<>>

\* C2: under every interleaving of concurrent parseClass calls, the forest a
\* call returns is the forest, ids included, that the call returns when it
\* runs alone.
C2_IdsAsWhenAlone ==
    \A h \in Handlers :
       pc[h] = "returned" => sections[h] = parseClass(classFile).sections

\* C3: for every input buffer parseClass returns a forest; no parsing step
\* builds a parser at an offset beyond the end of the buffer (a panic).
C3_NoSliceOutOfRange == \A h \in Handlers : pc[h] # "panicked"

\* C4: for the magic number followed by fewer than 4 bytes, the forest holds
\* the magic-number Section [0,4) once parseMagicNumber has run, and nothing
\* else ever: no version Section is built from zero-filled reads.
C4_NoFabricatedVersion ==
    \A h \in Handlers :
       (HasMagic(classFile) /\ Len(classFile) < 8 /\ fi[h] >= 2) =>
          /\ Len(sections[h]) = 1
          /\ sections[h][1].StartIndex = 0
          /\ sections[h][1].EndIndex = 4
          /\ sections[h][1].Name = Sprintf("magic number", <<>>)

\* C5: once a read has been issued with fewer bytes left than its width, the
\* parser the caller holds has a non-nil err, and keeps it over later reads.
C5_ShortReadSetsErr == everShort => parser.err

\* C7: in a returned forest the depth-first walk (parents before children)
\* meets strictly increasing ids, the first of them 0.
C7_IdsIncreaseDepthFirst ==
    \A h \in Handlers :
       (pc[h] = "returned" /\ sections[h] # <<>>) =>
          /\ sections[h][1].Id = 0
          /\ WalkIncreasing(sections[h])

\* C8: for a well-formed class file the returned top-level Sections start at
\* offset 0 and end at the length of the input.
C8_SectionsCoverInput ==
    \A h \in Handlers :
       (pc[h] = "returned" /\ classFile \in WellFormedFiles) =>
          /\ sections[h] # <<>>
          /\ sections[h][1].StartIndex = 0
          /\ sections[h][Len(sections[h])].EndIndex = Len(classFile)

ChildrenInside(sec) ==
    \A k \in 1..Len(sec.Children) :
       /\ sec.StartIndex <= sec.Children[k].StartIndex
       /\ sec.Children[k].StartIndex <= sec.Children[k].EndIndex
       /\ sec.Children[k].EndIndex <= sec.EndIndex

\* Two half-open ranges share a byte.
Overlap(a, b) ==
    /\ a.StartIndex < a.EndIndex /\ b.StartIndex < b.EndIndex
    /\ a.StartIndex < b.EndIndex /\ b.StartIndex < a.EndIndex

SiblingsDisjoint(sec) ==
    \A j, k \in 1..Len(sec.Children) :
       j < k => ~Overlap(sec.Children[j], sec.Children[k])

SiblingsOrdered(sec) ==
    \A j, k \in 1..Len(sec.Children) :
       j < k => sec.Children[j].StartIndex <= sec.Children[k].StartIndex

IsAccessFlags(sec) == sec.Name.fmt = "access flags"
IsPool(sec) == sec.Name.fmt = "constant pool with %d items"

\* Each child ends where the next begins or before it: with every child's
\* StartIndex <= EndIndex, no two siblings overlap and they are in
\* non-decreasing StartIndex order.
SiblingsInSequence(sec) ==
    \A k \in 1..(Len(sec.Children) - 1) :
       sec.Children[k].EndIndex <= sec.Children[k + 1].StartIndex

\* P holds of sec and of every Section below it.
RECURSIVE Everywhere(_, _)
Everywhere(P(_), sec) ==
    P(sec) /\ \A k \in 1..Len(sec.Children) : Everywhere(P, sec.Children[k])

NestedAsClaimed(sec) ==
    ChildrenInside(sec) /\ SiblingsDisjoint(sec) /\ SiblingsOrdered(sec)

NestedButFlags(sec) ==
    /\ ChildrenInside(sec)
    /\ ~IsAccessFlags(sec) => SiblingsInSequence(sec)
    /\ IsAccessFlags(sec) =>
          \A k \in 1..Len(sec.Children) :
             sec.Children[k].EndIndex = sec.Children[k].StartIndex + 1

PoolsOf(h) == { sections[h][k] : k \in { j \in 1..Len(sections[h]) : IsPool(sections[h][j]) } }

\* The tag and the logical index an entry Section is labelled with.
TagOf(item) == item.Children[1].Name.args[1]
SlotOf(item) == item.Name.args[1]

\* C9: a long or double entry at logical index i has one value child, the 8
\* bytes after the tag; no entry Section is labelled i+1; the entry Section
\* after it, if any, is labelled i+2.
C9_WideEntryTakesTwoSlots ==
    \A h \in Handlers : \A pool \in PoolsOf(h) :
       \A k \in 2..Len(pool.Children) :
          LET item == pool.Children[k] IN
          TagOf(item) \in {5, 6} =>
             /\ Len(item.Children) = 2
             /\ item.Children[2].StartIndex = item.StartIndex + 1
             /\ item.Children[2].EndIndex = item.StartIndex + 9
             /\ item.EndIndex = item.StartIndex + 9
             /\ \A j \in 2..Len(pool.Children) :
                   SlotOf(pool.Children[j]) # SlotOf(item) + 1
             /\ k < Len(pool.Children) =>
                   SlotOf(pool.Children[k + 1]) = SlotOf(item) + 2

\* A pool where an entry follows a long and one where an entry follows a
\* double (in some handler's forest).
C9_Witness ==
    \E h \in Handlers : \E pool \in PoolsOf(h) :
       \E k \in 2..Len(pool.Children) :
          /\ TagOf(pool.Children[k]) \in {5, 6}
          /\ k < Len(pool.Children)

\* The buffer up to offset off, followed by n int entries.
WithKnownEntries(bytes, off, n) ==
    SubSeq(bytes, 1, off) \o Concat([k \in 1..n |-> IntEntry])

\* C10: when parseConstantPool meets an unknown tag (a byte of the buffer)
\* the pool Section is still put in the forest; its children are the count
\* Section and the entries decoded before the tag and nothing more, and they
\* are the Sections the same pool has in their place when known entries stand
\* where the unknown tag stood.
C10_UnknownTagKeepsEntriesBefore ==
    \A h \in Handlers :
       (unknownTag[h].off >= 0 /\ unknownTag[h].off < Len(classFile)) =>
          \E pool \in PoolsOf(h) :
             /\ Len(pool.Children) = unknownTag[h].entry
             /\ \A n \in 1..2 :
                   LET ref == parseConstantPool(
                                 WithKnownEntries(classFile, unknownTag[h].off, n),
                                 pool.StartIndex, pool.Children[1].Id).section
                   IN  /\ Len(ref.Children) > Len(pool.Children)
                       /\ SubSeq(ref.Children, 1, Len(pool.Children)) = pool.Children

\* An unknown tag met after at least one entry was decoded, in a file with
\* the magic number.
C10_Witness ==
    \E h \in Handlers :
       /\ HasMagic(classFile)
       /\ unknownTag[h].off >= 0 /\ unknownTag[h].off < Len(classFile)
       /\ unknownTag[h].entry >= 2
       /\ pc[h] = "returned"

XrefOps ==
    { "Class.Name", "Class.getSuperName", "ref.className", "ref.memberName",
      "ref.memberType", "classInfo.className", "parseCode" }

\* C11: no cross-reference resolution panics: Class.Name, getSuperName, the
\* className/methodName/methodType of a reference, classInfo.className and
\* the catch-type lookup of parseCode all return to their caller, whatever
\* index or kind of entry a hop lands on.
C11_ResolutionNeverPanics == call.op \in XrefOps => ~call.panic

\* The characters parseSigniture knows outside an L...; class name.
KnownTypeCodes == DOMAIN TypeNames \cup {"(", ")", "["}

\* A descriptor with a character that is no type code, outside a class name.
RECURSIVE HasUnknownCode(_, _, _)
HasUnknownCode(sig, k, className) ==
    /\ k <= Len(sig)
    /\ IF className THEN HasUnknownCode(sig, k + 1, sig[k] # ";")
       ELSE sig[k] \notin KnownTypeCodes \/ HasUnknownCode(sig, k + 1, sig[k] = "L")

\* C12: a descriptor with an unknown type code fails that signature only:
\* parseSigniture does not panic on it, and ParseClass on a file that declares
\* methods does not panic but goes on to the class attributes and returns.
C12_BadDescriptorFailsOneMethod ==
    /\ (call.op = "parseSigniture" /\ HasUnknownCode(call.value.sig, 1, FALSE)) =>
          ~call.panic
    /\ (call.op = "ParseClass" /\ call.value.methodsCount > 0) => ~call.panic

\* C13: a parseClass call made after others (on this input or on other
\* inputs) returns the forest, ids included, that an earlier call on the same
\* input returned.
C13_SameForestWhenRepeated ==
    \A h \in Handlers :
       (pc[h] = "returned" /\ classFile \in DOMAIN kept /\ kept[classFile].known) =>
          sections[h] = kept[classFile].forest

\* A call returns for an input decoded before, with a non-empty forest, after
\* a call on another input that drew ids was made and kept.
C13_Witness ==
    \E h \in Handlers :
       /\ pc[h] = "returned"
       /\ classFile \in DOMAIN kept /\ kept[classFile].known
       /\ sections[h] # <<>>
       /\ \E bs \in DOMAIN kept \ {classFile} :
             kept[bs].known /\ Len(kept[bs].forest) # Len(sections[h])

\* The buffer holds the declared length and the fields parseCode decodes.
EnoughBytes ==
    LET v == call.value
    IN  /\ v.length[1] = 0 /\ v.before + v.length[2] <= Len(classFile)
        /\ v.codeLength[1] = 0
        /\ v.before + 10 + v.codeLength[2] + 8 * v.handlers <= Len(classFile)

\* C14: when parseCode returns, with enough bytes in the buffer, the reader
\* has advanced by the declared attribute length, whether the fields decoded
\* add up to less than the declared length or to more.
C14_AdvancesByDeclaredLength ==
    (call.op = "parseCode" /\ ~call.panic /\ EnoughBytes) =>
       parser.pos = call.value.before + call.value.length[2]

\* C15: a read of any width issued on a byteParser after a read on it has
\* failed for lack of bytes returns 0 and consumes nothing.
C15_NothingReadAfterFailure ==
    (lastRead.w > 0 /\ lastRead.afterShort) =>
       /\ lastRead.data = ZeroBytes(lastRead.w)
       /\ parser.pos = lastRead.before

\* A u1 issued on a parser over a non-empty buffer after a read on it failed.
C15_Witness ==
    /\ lastRead.w = 1 /\ lastRead.afterShort
    /\ Len(classFile) > 0 /\ lastRead.before = Len(classFile)

\* The count a pool Section was built for.
DeclaredCount(pool) == pool.Children[1].Name.args[1]

\* C16: for a declared count c no entry Section is labelled with a slot above
\* c - 1; for c = 0 and c = 1 the pool Section has no entry Section and covers
\* the 2 bytes of the count only.
C16_AtMostCountMinusOneSlots ==
    \A h \in Handlers : \A pool \in PoolsOf(h) :
       /\ \A k \in 2..Len(pool.Children) :
             SlotOf(pool.Children[k]) <= DeclaredCount(pool) - 1
       /\ DeclaredCount(pool) \in {0, 1} =>
             /\ Len(pool.Children) = 1
             /\ pool.EndIndex = pool.StartIndex + 2

\* The Section indexes tokens of the raw array of the response.
InRaw(sec) ==
    /\ 0 <= sec.StartIndex
    /\ sec.StartIndex <= sec.EndIndex
    /\ sec.EndIndex <= Len(classFile)

\* C17: when classJSON returns, every Section of the forest, at every depth,
\* has 0 <= StartIndex <= EndIndex <= the number of raw tokens.
C17_SectionsIndexRawTokens ==
    \A h \in Handlers :
       pc[h] = "returned" =>
          \A k \in 1..Len(sections[h]) : Everywhere(InRaw, sections[h][k])

=============================================================================
